---------------------------- MODULE Spec2Model ----------------------------
(***************************************************************************)
(* floss/utils.py: extraction of candidate strings from a byte buffer and  *)
(* the false-positive filters applied to them (extract_strings,            *)
(* strip_bytes, strip_string).                                             *)
(*                                                                         *)
(* A byte is an integer 0..255 and a text is a sequence of code points, so *)
(* that a byte buffer and a decoded string are both sequences of integers. *)
(* Offsets are 0-based as in Python; sequence positions are 1-based.       *)
(* The regular expressions are modelled by what Python's re.sub does with  *)
(* them: leftmost match first, alternatives in their written order, greedy *)
(* quantifiers with backtracking, '.' not matching a newline, the search   *)
(* resuming at the end of each replaced match.                             *)
(***************************************************************************)
EXTENDS Integers, Sequences, FiniteSets

\* Code points of the characters the patterns and the inputs use.
ord ==
    [NUL |-> 0, LF |-> 10, comma |-> 44, percent |-> 37, d0 |-> 48, d1 |-> 49,
     d4 |-> 52, d6 |-> 54, d7 |-> 55, d9 |-> 57, eq |-> 61, gt |-> 62,
     at |-> 64, A |-> 65, C |-> 67, D |-> 68, G |-> 71, P |-> 80, Q |-> 81,
     R |-> 82, V |-> 86, W |-> 87, lbracket |-> 91, backslash |-> 92,
     rbracket |-> 93, underscore |-> 95, backtick |-> 96, d |-> 100,
     e |-> 101, f |-> 102, h |-> 104, i |-> 105, j |-> 106, l |-> 108,
     o |-> 111, p |-> 112, q |-> 113, s |-> 115]

\* '.' of a pattern compiled without DOTALL: any character but a newline.
Dot(c) == c # ord.LF

\* The literal lit occurs in t at position pos.
StartsWith(t, pos, lit) ==
    /\ pos >= 1
    /\ pos + Len(lit) - 1 <= Len(t)
    /\ \A m \in 1..Len(lit) : t[pos + m - 1] = lit[m]

Min(S) == CHOOSE x \in S : \A y \in S : x <= y

Max(S) == CHOOSE x \in S : \A y \in S : x >= y

\* The first element of the sequence of literals lits that occurs in t at pos
\* (0 when none does): an alternation tries its branches in written order.
FirstLiteral(t, pos, lits) ==
    LET hits == {m \in 1..Len(lits) : StartsWith(t, pos, lits[m])}
    IN  IF hits = {} THEN 0 ELSE Min(hits)

----------------------------------------------------------------------------
(* FP_STRINGS *)

FP_STRINGS ==
    { \* R6016
      <<82, 54, 48, 49, 54>>,
      \* Program:
      <<80, 114, 111, 103, 114, 97, 109, 58, 32>>,
      \* Runtime Error!
      <<82, 117, 110, 116, 105, 109, 101, 32, 69, 114, 114, 111, 114, 33>>,
      \* <program name unknown>
      <<60, 112, 114, 111, 103, 114, 97, 109, 32, 110, 97, 109, 101, 32,
        117, 110, 107, 110, 111, 119, 110, 62>>,
      \* - floating point not loaded
      <<45, 32, 102, 108, 111, 97, 116, 105, 110, 103, 32, 112, 111, 105,
        110, 116, 32, 110, 111, 116, 32, 108, 111, 97, 100, 101, 100>>,
      \* Program: <program name unknown>
      <<80, 114, 111, 103, 114, 97, 109, 58, 32, 60, 112, 114, 111, 103,
        114, 97, 109, 32, 110, 97, 109, 101, 32, 117, 110, 107, 110, 111,
        119, 110, 62>>,
      \* - not enough space for thread data
      <<45, 32, 110, 111, 116, 32, 101, 110, 111, 117, 103, 104, 32, 115,
        112, 97, 99, 101, 32, 102, 111, 114, 32, 116, 104, 114, 101, 97,
        100, 32, 100, 97, 116, 97>>,
      \* all printable ASCII chars, space to tilde
      [m \in 1..95 |-> 31 + m] }

----------------------------------------------------------------------------
(* FP_FILTER_PREFIXES and FP_FILTER_SUFFIXES, strip_string *)

\* First branch of FP_FILTER_PREFIXES: ^.?((p|P|0|W4|Q)?VA)(0|7Q|,)?
\* The ways to match up to "VA", in the order the backtracking matcher tries
\* them: '.?' taking one character before taking none, the optional group
\* trying its branches in order before matching empty.
PrefixHeads ==
    << <<1, <<ord.p>>>>, <<1, <<ord.P>>>>, <<1, <<ord.d0>>>>,
       <<1, <<ord.W, ord.d4>>>>, <<1, <<ord.Q>>>>, <<1, <<>>>>,
       <<0, <<ord.p>>>>, <<0, <<ord.P>>>>, <<0, <<ord.d0>>>>,
       <<0, <<ord.W, ord.d4>>>>, <<0, <<ord.Q>>>>, <<0, <<>>>> >>

\* (0|7Q|,)? after "VA".
PrefixTails == << <<ord.d0>>, <<ord.d7, ord.Q>>, <<ord.comma>> >>

\* Length of the match of the anchored branch at the start of t, 0 if none.
AnchoredPrefixLen(t) ==
    LET ok(m) == /\ PrefixHeads[m][1] = 1 => (Len(t) >= 1 /\ Dot(t[1]))
                 /\ StartsWith(t, 1 + PrefixHeads[m][1],
                               PrefixHeads[m][2] \o <<ord.V, ord.A>>)
        hits == {m \in 1..Len(PrefixHeads) : ok(m)}
    IN  IF hits = {} THEN 0
        ELSE LET m    == Min(hits)
                 head == PrefixHeads[m][1] + Len(PrefixHeads[m][2]) + 2
                 tl   == FirstLiteral(t, head + 1, PrefixTails)
             IN  head + (IF tl = 0 THEN 0 ELSE Len(PrefixTails[tl]))

\* The literal branches before (fe){5,}: (0|P)?\\A | \[A | P\]A | @AA | fqd`
FloatingPrefixes ==
    << <<ord.d0, ord.backslash, ord.A>>, <<ord.P, ord.backslash, ord.A>>,
       <<ord.backslash, ord.A>>, <<ord.lbracket, ord.A>>,
       <<ord.P, ord.rbracket, ord.A>>, <<ord.at, ord.A, ord.A>>,
       <<ord.f, ord.q, ord.d, ord.backtick>> >>

\* The branch after (fe){5,}: (p|P)_A
FloatingPrefixesLast ==
    << <<ord.p, ord.underscore, ord.A>>, <<ord.P, ord.underscore, ord.A>> >>

\* Number of consecutive "fe" in t from pos on.
RECURSIVE FeCount(_, _)
FeCount(t, pos) ==
    IF StartsWith(t, pos, <<ord.f, ord.e>>) THEN 1 + FeCount(t, pos + 2) ELSE 0

\* Length of the match of the branches that carry no '^' at pos, 0 if none.
FloatingPrefixLen(t, pos) ==
    LET a == FirstLiteral(t, pos, FloatingPrefixes)
        z == FirstLiteral(t, pos, FloatingPrefixesLast)
    IN  IF a # 0 THEN Len(FloatingPrefixes[a])
        ELSE IF FeCount(t, pos) >= 5 THEN 2 * FeCount(t, pos)
        ELSE IF z # 0 THEN Len(FloatingPrefixesLast[z])
        ELSE 0

\* FP_FILTER_PREFIXES: length of its match at pos, 0 if none. '^' binds only
\* the first branch of the alternation, and only position 1 satisfies it.
FP_FILTER_PREFIXES(t, pos) ==
    IF pos = 1 /\ AnchoredPrefixLen(t) > 0 THEN AnchoredPrefixLen(t)
    ELSE FloatingPrefixLen(t, pos)

\* [0-9A-G>]
SuffixClass(c) ==
    \/ (ord.d0 <= c /\ c <= ord.d9)
    \/ (ord.A <= c /\ c <= ord.G)
    \/ c = ord.gt

\* The literal branches of FP_FILTER_SUFFIXES after [0-9A-G>]VA.
SuffixLiterals ==
    << <<ord.at, ord.A, ord.A>>, <<ord.i, ord.i, ord.V, ord.V>>,
       <<ord.j, ord.eq, ord.p, ord.at>>, <<ord.i, ord.d, ord.s, ord.at>>,
       <<ord.i, ord.D, ord.C, ord.at>>, <<ord.i, ord.d4, ord.C, ord.at>>,
       <<ord.i, ord.percent, ord.d1, ord.at>> >>

\* '$': the end of the text, or just before a newline that ends the text.
AtEnd(t, pos) ==
    \/ pos = Len(t) + 1
    \/ (pos = Len(t) /\ t[pos] = ord.LF)

\* FP_FILTER_SUFFIXES: length of its match at pos, 0 if none.
FP_FILTER_SUFFIXES(t, pos) ==
    LET hits == {m \in 1..Len(SuffixLiterals) :
                    /\ StartsWith(t, pos, SuffixLiterals[m])
                    /\ AtEnd(t, pos + Len(SuffixLiterals[m]))}
    IN  IF /\ pos + 2 <= Len(t)
           /\ SuffixClass(t[pos])
           /\ StartsWith(t, pos + 1, <<ord.V, ord.A>>)
           /\ AtEnd(t, pos + 3)
        THEN 3
        ELSE IF hits # {} THEN Len(SuffixLiterals[Min(hits)])
        ELSE 0

\* re.sub(FP_FILTER_PREFIXES, "", t), scanning from pos.
RECURSIVE SubPrefixes(_, _)
SubPrefixes(t, pos) ==
    IF pos > Len(t) THEN <<>>
    ELSE IF FP_FILTER_PREFIXES(t, pos) > 0
         THEN SubPrefixes(t, pos + FP_FILTER_PREFIXES(t, pos))
         ELSE <<t[pos]>> \o SubPrefixes(t, pos + 1)

\* re.sub(FP_FILTER_SUFFIXES, "", t), scanning from pos.
RECURSIVE SubSuffixes(_, _)
SubSuffixes(t, pos) ==
    IF pos > Len(t) THEN <<>>
    ELSE IF FP_FILTER_SUFFIXES(t, pos) > 0
         THEN SubSuffixes(t, pos + FP_FILTER_SUFFIXES(t, pos))
         ELSE <<t[pos]>> \o SubSuffixes(t, pos + 1)

strip_string(t) == SubSuffixes(SubPrefixes(t, 1), 1)

----------------------------------------------------------------------------
(* FP_FILTER_REP_BYTES and FP_STACK_FILTER_1, strip_bytes *)

\* Number of bytes equal to buf[pos] from pos on.
RECURSIVE RunLen(_, _)
RunLen(buf, pos) ==
    IF pos < Len(buf) /\ buf[pos + 1] = buf[pos]
    THEN 1 + RunLen(buf, pos + 1)
    ELSE 1

\* FP_FILTER_REP_BYTES, (.)\1{3,}: length of its match at pos, 0 if none.
FP_FILTER_REP_BYTES(buf, pos) ==
    IF Dot(buf[pos]) /\ RunLen(buf, pos) >= 4 THEN RunLen(buf, pos) ELSE 0

\* FP_STACK_FILTER_1, ...VA.*\x00\x00\x00\x00: length of its match at pos,
\* 0 if none. The greedy '.*' gives the last run of four nulls that no
\* newline separates from "VA".
FP_STACK_FILTER_1(buf, pos) ==
    LET nulls == <<ord.NUL, ord.NUL, ord.NUL, ord.NUL>>
        ends  == {m \in (pos + 5)..(Len(buf) - 3) :
                     /\ StartsWith(buf, m, nulls)
                     /\ \A x \in (pos + 5)..(m - 1) : Dot(buf[x])}
    IN  IF /\ pos + 4 <= Len(buf)
           /\ Dot(buf[pos]) /\ Dot(buf[pos + 1]) /\ Dot(buf[pos + 2])
           /\ StartsWith(buf, pos + 3, <<ord.V, ord.A>>)
           /\ ends # {}
        THEN Max(ends) + 4 - pos
        ELSE 0

\* re.sub(FP_FILTER_REP_BYTES, b"\x00\x00", buf), scanning from pos.
RECURSIVE SubRepBytes(_, _)
SubRepBytes(buf, pos) ==
    IF pos > Len(buf) THEN <<>>
    ELSE IF FP_FILTER_REP_BYTES(buf, pos) > 0
         THEN <<ord.NUL, ord.NUL>>
                  \o SubRepBytes(buf, pos + FP_FILTER_REP_BYTES(buf, pos))
         ELSE <<buf[pos]>> \o SubRepBytes(buf, pos + 1)

\* re.sub(FP_STACK_FILTER_1, b"\x00\x00", buf), scanning from pos.
RECURSIVE SubStackFilter(_, _)
SubStackFilter(buf, pos) ==
    IF pos > Len(buf) THEN <<>>
    ELSE IF FP_STACK_FILTER_1(buf, pos) > 0
         THEN <<ord.NUL, ord.NUL>>
                  \o SubStackFilter(buf, pos + FP_STACK_FILTER_1(buf, pos))
         ELSE <<buf[pos]>> \o SubStackFilter(buf, pos + 1)

strip_bytes(buf, on) ==
    IF ~on THEN buf
    ELSE SubStackFilter(SubRepBytes(buf, 1), 1)

----------------------------------------------------------------------------
(* floss.strings.extract_ascii_unicode_strings, the raw run extractor *)

\* Space through tilde.
Printable(c) == 32 <= c /\ c <= 126

\* Number of printable bytes from pos on.
RECURSIVE AsciiRunLen(_, _)
AsciiRunLen(buf, pos) ==
    IF pos <= Len(buf) /\ Printable(buf[pos])
    THEN 1 + AsciiRunLen(buf, pos + 1)
    ELSE 0

\* Number of two-byte units (a printable byte, then a null) from pos on.
RECURSIVE WideRunLen(_, _)
WideRunLen(buf, pos) ==
    IF pos + 1 <= Len(buf) /\ Printable(buf[pos]) /\ buf[pos + 1] = ord.NUL
    THEN 1 + WideRunLen(buf, pos + 2)
    ELSE 0

\* Every maximal run of printable bytes, tagged ascii, by ascending offset.
RECURSIVE extract_ascii_strings(_, _)
extract_ascii_strings(buf, pos) ==
    IF pos > Len(buf) THEN <<>>
    ELSE IF AsciiRunLen(buf, pos) > 0
         THEN <<[string   |-> SubSeq(buf, pos, pos + AsciiRunLen(buf, pos) - 1),
                 offset   |-> pos - 1,
                 encoding |-> "ascii"]>>
                  \o extract_ascii_strings(buf, pos + AsciiRunLen(buf, pos))
         ELSE extract_ascii_strings(buf, pos + 1)

\* Every maximal run of two-byte little-endian units, tagged utf16le.
RECURSIVE extract_unicode_strings(_, _)
extract_unicode_strings(buf, pos) ==
    IF pos > Len(buf) THEN <<>>
    ELSE IF WideRunLen(buf, pos) > 0
         THEN <<[string   |-> [m \in 1..WideRunLen(buf, pos) |->
                                  buf[pos + 2 * (m - 1)]],
                 offset   |-> pos - 1,
                 encoding |-> "utf16le"]>>
                  \o extract_unicode_strings(buf, pos + 2 * WideRunLen(buf, pos))
         ELSE extract_unicode_strings(buf, pos + 1)

\* Both sequences as one, by ascending offset; at equal offsets the ascii
\* candidate comes first.
RECURSIVE MergeByOffset(_, _)
MergeByOffset(a, u) ==
    IF a = <<>> THEN u
    ELSE IF u = <<>> THEN a
    ELSE IF Head(a).offset <= Head(u).offset
         THEN <<Head(a)>> \o MergeByOffset(Tail(a), u)
         ELSE <<Head(u)>> \o MergeByOffset(a, Tail(u))

extract_ascii_unicode_strings(buf) ==
    MergeByOffset(extract_ascii_strings(buf, 1), extract_unicode_strings(buf, 1))

----------------------------------------------------------------------------
(* extract_strings *)

\* Ceiling on the length of a candidate (floss/const.py), scaled to the
\* buffers of the model: above the 14 characters of "Runtime Error!", below
\* the longest candidate the buffers hold.
MAX_STRING_LENGTH == 16

\* Number of pieces a buffer of the model is made of, at most.
MaxPieces == 3

\* min_length ranges over -1..MaxMinLength.
MaxMinLength == 6

hello == <<ord.h, ord.e, ord.l, ord.l, ord.o>>

R6016 == <<ord.R, ord.d6, ord.d0, ord.d1, ord.d6>>

RuntimeError ==
    <<82, 117, 110, 116, 105, 109, 101, 32, 69, 114, 114, 111, 114, 33>>

\* The byte strings the buffers are concatenations of: a null byte, the
\* affixes "VA" and "@AA", a plain word and two denylist entries.
BufferPieces ==
    { <<ord.NUL>>, <<ord.V, ord.A>>, <<ord.at, ord.A, ord.A>>, hello, R6016,
      RuntimeError }

RECURSIVE Concat(_)
Concat(ps) == IF ps = <<>> THEN <<>> ELSE Head(ps) \o Concat(Tail(ps))

Buffers ==
    {Concat(ps) : ps \in UNION {[1..m -> BufferPieces] : m \in 0..MaxPieces}}

\* exclude=None and the empty set behave alike (both are falsy).
ExcludeSets == { {}, {hello} }

VARIABLES
    pc,               \* position in the function under way
    buffer,           \* extract_strings: the buffer argument
    min_length,       \* extract_strings: the min_length argument
    exclude,          \* extract_strings: the exclude argument
    buffer_stripped,  \* extract_strings: strip_bytes(buffer)
    scanned,          \* the extractor has been run on a buffer
    candidates,       \* what the extractor produced
    n,                \* number of candidates the loop has consumed
    verdict,          \* verdict[m]: the stage that settled candidate m
    yielded,          \* the strings yielded so far
    origin,           \* origin[m]: the candidate yielded[m] came from
    enabled,          \* strip_bytes: the enabled argument
    b_in,             \* strip_bytes: the b argument
    b,                \* strip_bytes: the local b
    s_in,             \* strip_string: the s argument
    s                 \* strip_string: the local s

vars ==
    <<pc, buffer, min_length, exclude, buffer_stripped, scanned, candidates,
      n, verdict, yielded, origin, enabled, b_in, b, s_in, s>>

filterVars == <<enabled, b_in, b, s_in, s>>

argVars == <<buffer, min_length, exclude>>

\* len(buffer) < min_length
BufferTooShort_OffByOne(buf, m) == Len(buf) + 1 < m

BufferTooShort(buf, m) == Len(buf) < m

\* len(s.string) > MAX_STRING_LENGTH
TooLong_Inclusive(t) == Len(t) >= MAX_STRING_LENGTH

TooLong(t) == Len(t) > MAX_STRING_LENGTH

\* s.string in FP_STRINGS
\* (with a comma missing after "R6016", Python joins it to "Program: ")
IsFalsePositive_MissingComma(t) ==
    t \in (FP_STRINGS \ {R6016, <<80, 114, 111, 103, 114, 97, 109, 58, 32>>})
              \cup {R6016 \o <<80, 114, 111, 103, 114, 97, 109, 58, 32>>}

IsFalsePositive(t) == t \in FP_STRINGS

\* len(decoded_string) < min_length
TooShort_OffByOne(decoded, m) == Len(decoded) + 1 < m

TooShort(decoded, m) == Len(decoded) < m

\* exclude and decoded_string in exclude
Excluded_Negated(decoded, ex) == ex = {} /\ decoded \in ex

Excluded(decoded, ex) == ex # {} /\ decoded \in ex

\* StaticString(decoded_string, s.offset, s.encoding)
StaticString_Reanchored(decoded, c) ==
    [string   |-> decoded,
     offset   |-> c.offset + (Len(c.string) - Len(decoded)),
     encoding |-> c.encoding]

StaticString(decoded, c) ==
    [string |-> decoded, offset |-> c.offset, encoding |-> c.encoding]

Init ==
    /\ pc = "start"
    /\ buffer \in Buffers
    /\ min_length \in -1..MaxMinLength
    /\ exclude \in ExcludeSets
    /\ buffer_stripped = <<>>
    /\ scanned = FALSE
    /\ candidates = <<>>
    /\ n = 0
    /\ verdict = <<>>
    /\ yielded = <<>>
    /\ origin = <<>>
    /\ enabled = FALSE
    /\ b_in = <<>>
    /\ b = <<>>
    /\ s_in = <<>>
    /\ s = <<>>

\* buffer_stripped = strip_bytes(buffer)
StripBuffer ==
    /\ pc = "start"
    /\ buffer_stripped' = strip_bytes(buffer, FALSE)
    /\ pc' = "stripped"
    /\ UNCHANGED <<argVars, scanned, candidates, n, verdict, yielded, origin,
                   filterVars>>

\* if len(buffer) < min_length: return
ReturnShort ==
    /\ pc = "stripped"
    /\ BufferTooShort(buffer, min_length)
    /\ pc' = "done"
    /\ UNCHANGED <<argVars, buffer_stripped, scanned, candidates, n, verdict,
                   yielded, origin, filterVars>>

\* for s in floss.strings.extract_ascii_unicode_strings(buffer_stripped)
RunExtractor ==
    /\ pc = "stripped"
    /\ ~BufferTooShort(buffer, min_length)
    /\ candidates' = extract_ascii_unicode_strings(buffer_stripped)
    /\ scanned' = TRUE
    /\ pc' = "loop"
    /\ UNCHANGED <<argVars, buffer_stripped, n, verdict, yielded, origin,
                   filterVars>>

\* The loop takes the next candidate and settles it at the stage named.
Settle(stage) ==
    /\ n' = n + 1
    /\ verdict' = Append(verdict, stage)
    /\ UNCHANGED <<pc, argVars, buffer_stripped, scanned, candidates,
                   filterVars>>

\* if len(s.string) > MAX_STRING_LENGTH: continue
DropTooLong ==
    /\ pc = "loop" /\ n < Len(candidates)
    /\ TooLong(candidates[n + 1].string)
    /\ Settle("max_length")
    /\ UNCHANGED <<yielded, origin>>

\* if s.string in FP_STRINGS: continue
DropFalsePositive ==
    /\ pc = "loop" /\ n < Len(candidates)
    /\ ~TooLong(candidates[n + 1].string)
    /\ IsFalsePositive(candidates[n + 1].string)
    /\ Settle("denylist")
    /\ UNCHANGED <<yielded, origin>>

\* decoded_string = strip_string(s.string)
\* if len(decoded_string) < min_length: continue
DropTooShort ==
    /\ pc = "loop" /\ n < Len(candidates)
    /\ ~TooLong(candidates[n + 1].string)
    /\ ~IsFalsePositive(candidates[n + 1].string)
    /\ TooShort(strip_string(candidates[n + 1].string), min_length)
    /\ Settle("min_length")
    /\ UNCHANGED <<yielded, origin>>

\* if exclude and decoded_string in exclude: continue
DropExcluded ==
    /\ pc = "loop" /\ n < Len(candidates)
    /\ ~TooLong(candidates[n + 1].string)
    /\ ~IsFalsePositive(candidates[n + 1].string)
    /\ ~TooShort(strip_string(candidates[n + 1].string), min_length)
    /\ Excluded(strip_string(candidates[n + 1].string), exclude)
    /\ Settle("exclude")
    /\ UNCHANGED <<yielded, origin>>

\* yield StaticString(decoded_string, s.offset, s.encoding)
YieldString ==
    /\ pc = "loop" /\ n < Len(candidates)
    /\ ~TooLong(candidates[n + 1].string)
    /\ ~IsFalsePositive(candidates[n + 1].string)
    /\ ~TooShort(strip_string(candidates[n + 1].string), min_length)
    /\ ~Excluded(strip_string(candidates[n + 1].string), exclude)
    /\ Settle("yield")
    /\ yielded' = Append(yielded,
                         StaticString(strip_string(candidates[n + 1].string),
                                      candidates[n + 1]))
    /\ origin' = Append(origin, n + 1)

\* The extractor is exhausted: the generator ends.
Finish ==
    /\ pc = "loop" /\ n = Len(candidates)
    /\ pc' = "done"
    /\ UNCHANGED <<argVars, buffer_stripped, scanned, candidates, n, verdict,
                   yielded, origin, filterVars>>

Next ==
    \/ StripBuffer
    \/ ReturnShort
    \/ RunExtractor
    \/ DropTooLong
    \/ DropFalsePositive
    \/ DropTooShort
    \/ DropExcluded
    \/ YieldString
    \/ Finish

Spec == Init /\ [][Next]_vars

----------------------------------------------------------------------------
(* strip_bytes called on its own, with either value of enabled *)

\* Number of pieces a byte buffer given to strip_bytes is made of, at most.
MaxBytePieces == 5

BytePieces ==
    { <<ord.NUL, ord.NUL>>, <<ord.LF>>, <<ord.A>>, <<ord.V, ord.A>>,
      <<ord.A, ord.A, ord.A, ord.A>> }

ByteBuffers ==
    {Concat(ps) : ps \in UNION {[1..m -> BytePieces] : m \in 0..MaxBytePieces}}

extractVars ==
    <<buffer, min_length, exclude, buffer_stripped, scanned, candidates, n,
      verdict, yielded, origin>>

ExtractIdle ==
    /\ buffer = <<>>
    /\ min_length = 0
    /\ exclude = {}
    /\ buffer_stripped = <<>>
    /\ scanned = FALSE
    /\ candidates = <<>>
    /\ n = 0
    /\ verdict = <<>>
    /\ yielded = <<>>
    /\ origin = <<>>

InitBytes ==
    /\ pc = "sb_call"
    /\ b_in \in ByteBuffers
    /\ b = b_in
    /\ enabled \in BOOLEAN
    /\ s_in = <<>>
    /\ s = <<>>
    /\ ExtractIdle

\* if not enabled: return b
ReturnUnfiltered ==
    /\ pc = "sb_call"
    /\ ~enabled
    /\ pc' = "sb_ret"
    /\ UNCHANGED <<extractVars, filterVars>>

\* b = re.sub(FP_FILTER_REP_BYTES, b"\x00\x00", b)
CollapseRepeats ==
    /\ pc = "sb_call"
    /\ enabled
    /\ b' = SubRepBytes(b, 1)
    /\ pc' = "sb_rep"
    /\ UNCHANGED <<extractVars, enabled, b_in, s_in, s>>

\* b = re.sub(FP_STACK_FILTER_1, b"\x00\x00", b); return b
CollapseStack ==
    /\ pc = "sb_rep"
    /\ b' = SubStackFilter(b, 1)
    /\ pc' = "sb_ret"
    /\ UNCHANGED <<extractVars, enabled, b_in, s_in, s>>

NextBytes ==
    \/ ReturnUnfiltered
    \/ CollapseRepeats
    \/ CollapseStack

SpecBytes == InitBytes /\ [][NextBytes]_vars

----------------------------------------------------------------------------
(* strip_string called on its own *)

\* Number of pieces a text given to strip_string is made of, at most.
MaxTextPieces == 5

TextPieces ==
    { <<ord.d0>>, <<ord.V, ord.A>>, <<ord.at, ord.A, ord.A>>, <<ord.h>>,
      <<ord.f, ord.e>>, <<ord.LF>> }

Texts ==
    {Concat(ps) : ps \in UNION {[1..m -> TextPieces] : m \in 0..MaxTextPieces}}

InitStrip ==
    /\ pc = "ss_call"
    /\ s_in \in Texts
    /\ s = s_in
    /\ enabled = FALSE
    /\ b_in = <<>>
    /\ b = <<>>
    /\ ExtractIdle

\* s = re.sub(FP_FILTER_PREFIXES, "", s)
StripPrefixes ==
    /\ pc = "ss_call"
    /\ s' = SubPrefixes(s, 1)
    /\ pc' = "ss_prefixes"
    /\ UNCHANGED <<extractVars, enabled, b_in, b, s_in>>

\* s = re.sub(FP_FILTER_SUFFIXES, "", s); return s
StripSuffixes ==
    /\ pc = "ss_prefixes"
    /\ s' = SubSuffixes(s, 1)
    /\ pc' = "ss_ret"
    /\ UNCHANGED <<extractVars, enabled, b_in, b, s_in>>

NextStrip ==
    \/ StripPrefixes
    \/ StripSuffixes

SpecStrip == InitStrip /\ [][NextStrip]_vars

----------------------------------------------------------------------------
(* Properties of extract_strings, checked under Spec *)

Range(f) == {f[m] : m \in DOMAIN f}

\* A proper suffix of t: t with some characters removed from its front.
IsProperSuffix(u, t) ==
    Len(u) < Len(t) /\ u = SubSeq(t, Len(t) - Len(u) + 1, Len(t))

\* C1: a buffer shorter than min_length yields the empty sequence, whatever
\* its content and the exclusion set, and the extractor is never run on it.
C1_ShortBufferYieldsNothing ==
    Len(buffer) < min_length =>
        /\ yielded = <<>>
        /\ ~scanned
        /\ candidates = <<>>
        /\ pc \in {"start", "stripped", "done"}

\* The call has returned for a buffer that is too short although it holds
\* printable runs.
C1_Witness ==
    /\ pc = "done"
    /\ Len(buffer) < min_length
    /\ extract_ascii_unicode_strings(buffer) # <<>>

\* C2: every yielded string is at least min_length long after affix
\* stripping; a candidate whose raw text is long enough but whose stripped
\* text is shorter than min_length never appears in the output.
C2_YieldedAtLeastMinLength ==
    /\ \A m \in 1..Len(yielded) : Len(yielded[m].string) >= min_length
    /\ \A c \in 1..n :
           Len(strip_string(candidates[c].string)) < min_length
               => c \notin Range(origin)

\* The loop has dropped a candidate that was long enough only with its
\* affix, and has yielded another.
C2_Witness ==
    /\ min_length > 0
    /\ yielded # <<>>
    /\ \E c \in 1..n :
           /\ Len(candidates[c].string) >= min_length
           /\ Len(strip_string(candidates[c].string)) < min_length
           /\ verdict[c] = "min_length"

\* C3 as stated: no yielded string has a text that equals an entry of
\* FP_STRINGS.
C3_NoYieldedTextInDenylist ==
    \A m \in 1..Len(yielded) : yielded[m].string \notin FP_STRINGS

\* C3 as amended: no string is yielded from a candidate whose text as
\* extracted, before affix stripping, equals an entry of FP_STRINGS; a
\* buffer that is exactly "Runtime Error!" yields nothing.
C3_NoDenylistedCandidateYielded ==
    /\ \A m \in 1..Len(yielded) :
           candidates[origin[m]].string \notin FP_STRINGS
    /\ \A c \in 1..n :
           candidates[c].string \in FP_STRINGS => verdict[c] # "yield"
    /\ (pc = "done" /\ buffer = RuntimeError) => yielded = <<>>

\* The buffer "Runtime Error!" has been scanned to its end: its one
\* candidate was settled by the denylist.
C3_Witness ==
    /\ pc = "done"
    /\ buffer = RuntimeError
    /\ scanned
    /\ verdict = <<"denylist">>

\* C4 as stated: with an exclusion set given, a candidate whose stripped
\* text is a member never appears in the output and every other candidate
\* does.
C4_AllButExcludedYielded ==
    (pc = "done" /\ scanned /\ exclude # {}) =>
        \A c \in 1..Len(candidates) :
            /\ strip_string(candidates[c].string) \in exclude
                   => c \notin Range(origin)
            /\ strip_string(candidates[c].string) \notin exclude
                   => c \in Range(origin)

\* C4 as amended: a candidate whose stripped text is a member of the
\* exclusion set never appears in the output; a candidate whose stripped text
\* is no member appears exactly when it passes the other stages (raw text at
\* most MAX_STRING_LENGTH long and not in FP_STRINGS, stripped text at least
\* min_length long).
C4_ExcludedNeverOthersIfTheyPass ==
    (pc = "done" /\ scanned) =>
        \A c \in 1..Len(candidates) :
            LET raw     == candidates[c].string
                decoded == strip_string(raw)
            IN  /\ decoded \in exclude => c \notin Range(origin)
                /\ decoded \notin exclude =>
                       (c \in Range(origin) <=>
                            /\ Len(raw) <= MAX_STRING_LENGTH
                            /\ raw \notin FP_STRINGS
                            /\ Len(decoded) >= min_length)

\* A finished call with the exclusion set {"hello"}: one candidate that
\* strips to "hello" was dropped for it and another candidate was yielded.
C4_Witness ==
    /\ pc = "done"
    /\ exclude = {hello}
    /\ yielded # <<>>
    /\ \E c \in 1..n :
           /\ strip_string(candidates[c].string) = hello
           /\ candidates[c].string # hello
           /\ verdict[c] = "exclude"

\* C5: every yielded string carries the offset and the encoding of the
\* candidate it was made from, also when stripping removed a prefix, and the
\* yielded strings keep the order of their candidates.
C5_OffsetEncodingOrderKept ==
    /\ Len(origin) = Len(yielded)
    /\ \A m \in 1..Len(yielded) :
           /\ origin[m] \in 1..n
           /\ yielded[m].offset = candidates[origin[m]].offset
           /\ yielded[m].encoding = candidates[origin[m]].encoding
    /\ \A m \in 1..Len(yielded) : \A k \in 1..Len(yielded) :
           m < k => origin[m] < origin[k]

\* Two strings have been yielded, of both encodings, one of them with a
\* prefix stripped from its text and some text left.
C5_Witness ==
    /\ Len(yielded) >= 2
    /\ {yielded[m].encoding : m \in 1..Len(yielded)} = {"ascii", "utf16le"}
    /\ \E m \in 1..Len(yielded) :
           /\ yielded[m].string # <<>>
           /\ IsProperSuffix(yielded[m].string, candidates[origin[m]].string)

\* C6: a call with a negative min_length is rejected before any scanning: no
\* candidate is extracted and no string is yielded.
C6_NegativeMinLengthRejected ==
    min_length < 0 =>
        /\ ~scanned
        /\ candidates = <<>>
        /\ yielded = <<>>

\* C8: on a buffer at least min_length long, each candidate is settled by
\* the first stage that rejects it, in the order length cap, denylist,
\* post-strip minimum length, exclusion set; it is yielded exactly when no
\* stage rejects it, once, with strip_string of its text.
C8_StagesInOrder ==
    /\ scanned => (Len(buffer) >= min_length
                      /\ candidates = extract_ascii_unicode_strings(buffer))
    /\ Len(verdict) = n
    /\ (pc = "done" /\ scanned) => n = Len(candidates)
    /\ \A c \in 1..n :
           LET raw     == candidates[c].string
               decoded == strip_string(raw)
           IN  verdict[c] =
                   IF Len(raw) > MAX_STRING_LENGTH THEN "max_length"
                   ELSE IF raw \in FP_STRINGS THEN "denylist"
                   ELSE IF Len(decoded) < min_length THEN "min_length"
                   ELSE IF exclude # {} /\ decoded \in exclude THEN "exclude"
                   ELSE "yield"
    /\ Range(origin) = {c \in 1..n : verdict[c] = "yield"}
    /\ Len(yielded) = Cardinality(Range(origin))
    /\ \A m \in 1..Len(yielded) :
           yielded[m].string = strip_string(candidates[origin[m]].string)

\* A finished call whose candidates were settled at three different stages
\* or more.
C8_Witness ==
    /\ pc = "done"
    /\ scanned
    /\ Cardinality(Range(verdict)) >= 3
    /\ "yield" \in Range(verdict)

----------------------------------------------------------------------------
(* Properties of strip_bytes, checked under SpecBytes *)

\* buf from pos on with every run of four or more equal bytes, of any value,
\* replaced by two null bytes.
RECURSIVE EveryRunCollapsed(_, _)
EveryRunCollapsed(buf, pos) ==
    IF pos > Len(buf) THEN <<>>
    ELSE IF RunLen(buf, pos) >= 4
         THEN <<ord.NUL, ord.NUL>>
                  \o EveryRunCollapsed(buf, pos + RunLen(buf, pos))
         ELSE <<buf[pos]>> \o EveryRunCollapsed(buf, pos + 1)

\* C7: with the pre-filter enabled every run of four or more equal bytes, of
\* any byte value, is replaced by exactly two null bytes; with it disabled
\* the buffer is returned unchanged.
C7_EveryRunCollapsed ==
    /\ pc = "sb_rep" => b = EveryRunCollapsed(b_in, 1)
    /\ (pc = "sb_ret" /\ ~enabled) => b = b_in

\* Any three bytes, then "VA", then any bytes, then four null bytes.
IsStackPattern(buf) ==
    /\ Len(buf) >= 9
    /\ StartsWith(buf, 4, <<ord.V, ord.A>>)
    /\ StartsWith(buf, Len(buf) - 3, <<ord.NUL, ord.NUL, ord.NUL, ord.NUL>>)

\* C10: with the pre-filter enabled an occurrence of the stack pattern in
\* the input buffer is collapsed to two null bytes in the result: a buffer
\* that is one such occurrence comes back as two null bytes. Stated for the
\* buffers without a newline, the byte that '.' leaves out.
C10_StackPatternCollapsed ==
    (/\ pc = "sb_ret"
     /\ enabled
     /\ IsStackPattern(b_in)
     /\ \A m \in 1..Len(b_in) : Dot(b_in[m])) =>
        b = <<ord.NUL, ord.NUL>>

----------------------------------------------------------------------------
(* Properties of strip_string, checked under SpecStrip *)

\* C9: strip_string removes at most one fragment at the very start of the
\* text and at most one at its very end, and keeps every other character in
\* place: the result is the text without some leading and some trailing
\* characters, and "0VAh" becomes "h". Stated for the texts an extracted
\* candidate can have, which are printable.
C9_OnlyLeadingAndTrailingRemoved ==
    (pc = "ss_ret" /\ \A m \in 1..Len(s_in) : Printable(s_in[m])) =>
        /\ \E lead \in 0..Len(s_in) : \E trail \in 0..(Len(s_in) - lead) :
               s = SubSeq(s_in, lead + 1, Len(s_in) - trail)
        /\ s_in = <<ord.d0, ord.V, ord.A, ord.h>> => s = <<ord.h>>

============================================================================
